---- MODULE Spec2Model ----
(***************************************************************************)
(* Model of src/nn/var_store.rs: the variable store (VarStore), its        *)
(* namespace cursor (Path) and the variable-creation / freeze / persist    *)
(* protocol.                                                               *)
(*                                                                         *)
(* Strings are sequences of one-character strings, so that joining,        *)
(* formatting and separator checks are computed as the code computes them. *)
(* Tensors are handles (indices into bufs) onto a shared tensor            *)
(* implementation holding a shape, a value and the requires_grad flag.     *)
(***************************************************************************)
EXTENDS Naturals, Sequences, FiniteSets

VARIABLES
    variables,  \* VarStore.variables: key -> [tensor, trainable]
    bufs,       \* tensor implementations, in allocation order
    cur,        \* Path.path of the path the caller holds
    file,       \* what the destination holds: NoFile or a named-tensor bundle
    addLog,     \* history: the add calls completed on this store
    saved,      \* history: the contents of the store when it was last saved,
                \* and whether a new store was constructed since
    last,       \* observation of the last call: operation, inputs, outcome
    hist,       \* history: the freeze / unfreeze call before the last one
    lock,       \* the Mutex around variables: 0, or the thread holding it
    threads     \* the calls in progress, one record per thread

vars == <<variables, bufs, cur, file, addLog, saved, last, hist, lock, threads>>

-----------------------------------------------------------------------------
(* Bounds and input sets *)

\* adds per store in the persistence specification
MaxAdds == 2
\* adds per store in the naming specification
MaxNamingAdds == 3
\* adds per store in the path specification
MaxPathAdds == 1
\* sub() calls per path
MaxDepth == 2

SEP == "|"

Str_w == <<"w">>
Str_w2 == <<"w", "_", "_", "2">>
Str_aw == <<"a", "|", "w">>
Str_a == <<"a">>
Str_b == <<"b">>

\* leaf names of the persistence specification
Names == {Str_w}
\* leaf names of the naming specification
NamingNames == {Str_w, Str_w2, Str_aw}
\* leaf names of the path specification
PathNames == {Str_w, Str_aw}
\* segments given to sub()
Segs == {Str_a, Str_b, Str_aw}
\* dims given to var (element counts of one-dimensional tensors)
Shapes == {<<2>>, <<3>>}
\* dims given to the other creation calls
DimsOther == <<2>>
\* values the initializer given to var fills the tensor with: Init::Const(0.)
InitVals == {0}

\* a destination that holds no readable bundle
NoFile == [present |-> FALSE, bundle |-> {}]

-----------------------------------------------------------------------------
(* Strings *)

\* a separator check that looks at the first character only
HasSepFirstOnly(s) == Len(s) > 0 /\ s[1] = SEP

\* s.chars().any(|x| x == SEP)
HasSep(s) == \E i \in 1..Len(s) : s[i] = SEP

RECURSIVE Join(_, _)
\* Vec<String>::join(sep)
Join(v, sep) ==
    IF Len(v) = 0 THEN <<>>
    ELSE IF Len(v) = 1 THEN v[1]
    ELSE v[1] \o sep \o Join(Tail(v), sep)

Digit(d) ==
    CASE d = 0 -> "0" [] d = 1 -> "1" [] d = 2 -> "2" [] d = 3 -> "3"
      [] d = 4 -> "4" [] d = 5 -> "5" [] d = 6 -> "6" [] d = 7 -> "7"
      [] d = 8 -> "8" [] d = 9 -> "9"

RECURSIVE ToDec(_)
\* Display of a usize, as format!("{}", n) prints it
ToDec(n) == IF n < 10 THEN <<Digit(n)>> ELSE ToDec(n \div 10) \o <<Digit(n % 10)>>

\* a name computation that leaves out the separator before the leaf name
PathNameNoSep(path, name) ==
    IF path = <<>> THEN name
    ELSE Join(path, <<SEP>>) \o name

\* Path::path, past its separator check
PathName(path, name) ==
    IF path = <<>> THEN name
    ELSE Join(path, <<SEP>>) \o <<SEP>> \o name

\* an add that inserts under the computed path whether or not it is taken
AddKeyNoSuffix(path, vs) == path

\* the key Path::add inserts under: format!("{}__{}", path, variables.len())
\* when the path is taken
AddKey(path, vs) ==
    IF path \in DOMAIN vs
    THEN path \o <<"_", "_">> \o ToDec(Cardinality(DOMAIN vs))
    ELSE path

-----------------------------------------------------------------------------
(* Maps and iteration orders *)

EmptyMap == [k \in {} |-> 0]

\* HashMap::insert: a present key has its value replaced
Insert(m, k, v) == [x \in DOMAIN m \cup {k} |-> IF x = k THEN v ELSE m[x]]

\* the orders a HashMap may iterate its keys in
Orders(S) ==
    {f \in [1..Cardinality(S) -> S] : \A i, j \in DOMAIN f : f[i] = f[j] => i = j}

NothingSaved == [from |-> EmptyMap, fresh |-> FALSE]

\* no freeze or unfreeze call came before the last call
NoHist == [prev |-> "none", before |-> {}, frozen |-> FALSE]

\* the threads that share the store
Threads == {1, 2}

\* a thread that is in no call
Idle == [pc |-> "idle", op |-> "none", name |-> <<>>, path |-> <<>>, key |-> <<>>, tensor |-> 0,
         trainable |-> FALSE, src |-> 0, ok |-> TRUE, calls |-> 0]

NoLast ==
    [op |-> "new", res |-> "ok", locked |-> FALSE, name |-> <<>>, key |-> <<>>,
     collided |-> FALSE, n |-> 0, ret |-> <<>>, snap |-> {}, visited |-> {},
     src |-> 0]

-----------------------------------------------------------------------------
(* VarStore::new and the root path *)

Init ==
    /\ variables = EmptyMap
    /\ bufs = <<>>
    /\ cur = <<>>
    /\ file = NoFile
    /\ addLog = <<>>
    /\ saved = NothingSaved
    /\ last = NoLast
    /\ hist = NoHist
    /\ lock = 0
    /\ threads = [t \in Threads |-> Idle]

\* VarStore::new: a fresh store replaces the one the caller held
NewStore ==
    /\ variables' = EmptyMap
    /\ bufs' = <<>>
    /\ cur' = <<>>
    /\ addLog' = <<>>
    /\ last' = NoLast
    /\ saved' = [saved EXCEPT !.fresh = file.present]
    /\ UNCHANGED file

\* VarStore::root
Root ==
    /\ cur' = <<>>
    /\ last' = [NoLast EXCEPT !.op = "root"]
    /\ UNCHANGED <<variables, bufs, file, addLog, saved>>

\* Path::sub
Sub(s) ==
    IF HasSep(s)
    THEN /\ last' = [NoLast EXCEPT !.op = "sub", !.res = "panic", !.name = s]
         /\ UNCHANGED <<variables, bufs, cur, file, addLog, saved>>
    ELSE /\ cur' = Append(cur, s)
         /\ last' = [NoLast EXCEPT !.op = "sub", !.name = s]
         /\ UNCHANGED <<variables, bufs, file, addLog, saved>>

-----------------------------------------------------------------------------
(* Path::add and the creation wrappers *)

\* Path::add on a fresh tensor of the given dims and value
Add(op, name, dims, val, trainable) ==
    IF HasSep(name)
    THEN /\ last' = [NoLast EXCEPT !.op = op, !.res = "panic", !.name = name]
         /\ UNCHANGED <<variables, bufs, cur, file, addLog, saved>>
    ELSE LET path == PathName(cur, name)
             key == AddKey(path, variables)
             t == Len(bufs) + 1
         IN /\ bufs' = Append(bufs, [shape |-> dims, val |-> val, rg |-> trainable])
            /\ variables' = Insert(variables, key, [tensor |-> t, trainable |-> trainable])
            /\ addLog' = Append(addLog,
                   [key |-> key, path |-> path, collided |-> (path \in DOMAIN variables),
                    n |-> Cardinality(DOMAIN variables), trainable |-> trainable,
                    tensor |-> t, segs |-> cur, name |-> name])
            /\ last' = [NoLast EXCEPT !.op = op, !.locked = TRUE, !.name = name,
                           !.key = key, !.collided = (path \in DOMAIN variables),
                           !.n = Cardinality(DOMAIN variables), !.ret = <<t>>]
            /\ UNCHANGED <<cur, file, saved>>

ZerosNoTrain(name, dims) == Add("zeros_no_train", name, dims, 0, FALSE)

OnesNoTrain(name, dims) == Add("ones_no_train", name, dims, 1, FALSE)

Var(name, dims, init) == Add("var", name, dims, init, TRUE)

-----------------------------------------------------------------------------
(* Tensor capabilities used by the store *)

\* Tensor::set_requires_grad on the tensor of variable v
SetRequiresGrad(bs, v, r) == [bs EXCEPT ![v.tensor].rg = r]

\* Tensor::f_copy_ succeeds when the shapes agree (no shape given to the
\* creation calls here broadcasts to another)
CopyOk(dst, src) == dst.shape = src.shape

\* the tensor after Tensor::f_copy_ has copied src into it under no_grad
CopyInto(dst, src) == [dst EXCEPT !.val = src.val]

\* the contents a tensor is written with
Contents(b) == [shape |-> b.shape, val |-> b.val]

\* the named-tensor bundle Tensor::save_multi writes for a slice of
\* (name, &tensor) pairs
SaveMulti(named, bs) == {<<named[i][1], Contents(bs[named[i][2]])>> : i \in DOMAIN named}

\* Tensor::load_multi(..).into_iter().collect::<HashMap<_, _>>()
LoadMulti(f) ==
    [nm \in {p[1] : p \in f} |-> (CHOOSE p \in f : p[1] = nm)[2]]

\* Path::var_copy(name, t) with t the tensor behind handle src: zeros of
\* t's shape go through var and add, then t's values are copied in
VarCopy(name, src) ==
    IF HasSep(name)
    THEN /\ last' = [NoLast EXCEPT !.op = "var_copy", !.res = "panic", !.name = name,
                        !.src = src]
         /\ UNCHANGED <<variables, bufs, cur, file, addLog, saved>>
    ELSE LET path == PathName(cur, name)
             key == AddKey(path, variables)
             t == Len(bufs) + 1
             zeroed == Append(bufs, [shape |-> bufs[src].shape, val |-> 0, rg |-> TRUE])
         IN /\ bufs' = [zeroed EXCEPT ![t] = CopyInto(@, zeroed[src])]
            /\ variables' = Insert(variables, key, [tensor |-> t, trainable |-> TRUE])
            /\ addLog' = Append(addLog,
                   [key |-> key, path |-> path, collided |-> (path \in DOMAIN variables),
                    n |-> Cardinality(DOMAIN variables), trainable |-> TRUE,
                    tensor |-> t, segs |-> cur, name |-> name])
            /\ last' = [NoLast EXCEPT !.op = "var_copy", !.locked = TRUE, !.name = name,
                           !.key = key, !.collided = (path \in DOMAIN variables),
                           !.n = Cardinality(DOMAIN variables), !.ret = <<t>>,
                           !.src = src]
            /\ UNCHANGED <<cur, file, saved>>

\* the caller writes value v into the buffer behind a handle it holds
HandleWrite(t, v) ==
    /\ bufs' = [bufs EXCEPT ![t].val = v]
    /\ last' = [NoLast EXCEPT !.op = "write", !.ret = <<t>>]
    /\ UNCHANGED <<variables, cur, file, addLog, saved>>

-----------------------------------------------------------------------------
(* VarStore operations *)

\* the filter_map closure of trainable_variables
IsTrainable(v) == v.trainable

RECURSIVE FilterTensors(_, _)
\* values().filter_map(..).collect() over one iteration order
FilterTensors(vs, order) ==
    IF order = <<>> THEN <<>>
    ELSE (IF IsTrainable(vs[Head(order)]) THEN <<vs[Head(order)].tensor>> ELSE <<>>)
         \o FilterTensors(vs, Tail(order))

\* VarStore::trainable_variables
TrainableVariables ==
    \E order \in Orders(DOMAIN variables) :
        /\ last' = [NoLast EXCEPT !.op = "trainable_variables", !.locked = TRUE,
                       !.ret = FilterTensors(variables, order)]
        /\ UNCHANGED <<variables, bufs, cur, file, addLog, saved>>

\* the (name, tensor) pairs save collects, in one iteration order
NamedTensorsTrainable(vs, order) ==
    LET keep == SelectSeq(order, LAMBDA k : vs[k].trainable)
    IN [i \in DOMAIN keep |-> <<keep[i], vs[keep[i]].tensor>>]

\* the (name, &tensor) pairs save collects, in one iteration order
NamedTensors(vs, order) ==
    [i \in DOMAIN order |-> <<order[i], vs[order[i]].tensor>>]

\* VarStore::save; ok is whether the codec could write the destination
Save(ok) ==
    \E order \in Orders(DOMAIN variables) :
        LET named == NamedTensors(variables, order)
        IN /\ IF ok
              THEN /\ file' = [present |-> TRUE, bundle |-> SaveMulti(named, bufs)]
                   /\ saved' = [from |-> [k \in DOMAIN variables |->
                                               Contents(bufs[variables[k].tensor])],
                                 fresh |-> FALSE]
              ELSE /\ file' \in {file, NoFile}
                   /\ saved' = IF file' = NoFile THEN NothingSaved ELSE saved
           /\ last' = [NoLast EXCEPT !.op = "save", !.locked = TRUE,
                          !.res = IF ok THEN "ok" ELSE "ioerror",
                          !.snap = {named[i] : i \in DOMAIN named}]
           /\ UNCHANGED <<variables, bufs, cur, addLog>>

\* how far the loop of load gets over one order: the first position whose
\* name is missing from the bundle or whose copy fails, or past the end
LoadStop(vs, bs, named, order) ==
    LET bad == {i \in DOMAIN order :
                   \/ order[i] \notin DOMAIN named
                   \/ ~CopyOk(bs[vs[order[i]].tensor], named[order[i]])}
    IN IF bad = {} THEN Len(order) + 1
       ELSE CHOOSE i \in bad : \A j \in bad : i <= j

\* a load that copies only when its loop reaches the end
LoadCopyAllOrNothing(vs, bs, named, visited) ==
    [t \in DOMAIN bs |->
        IF visited = DOMAIN vs /\ \E k \in visited : vs[k].tensor = t
        THEN CopyInto(bs[t], named[CHOOSE k \in visited : vs[k].tensor = t])
        ELSE bs[t]]

\* a load that copies outside no_grad through a detached, untracked tensor
LoadCopyDropsGrad(vs, bs, named, visited) ==
    [t \in DOMAIN bs |->
        IF \E k \in visited : vs[k].tensor = t
        THEN [CopyInto(bs[t], named[CHOOSE k \in visited : vs[k].tensor = t])
                 EXCEPT !.rg = FALSE]
        ELSE bs[t]]

\* the tensors after the loop of load has copied into the visited variables
LoadCopy(vs, bs, named, visited) ==
    [t \in DOMAIN bs |->
        IF \E k \in visited : vs[k].tensor = t
        THEN CopyInto(bs[t], named[CHOOSE k \in visited : vs[k].tensor = t])
        ELSE bs[t]]

\* a load whose loop leaves on a missing name and falls through to Ok(())
LoadResultBreaks(named, order, stop) ==
    IF stop > Len(order) \/ order[stop] \notin DOMAIN named THEN "ok"
    ELSE "copyerror"

\* what load returns for a loop that stopped at position stop
LoadResult(named, order, stop) ==
    IF stop > Len(order) THEN "ok"
    ELSE IF order[stop] \notin DOMAIN named THEN "notfound"
    ELSE "copyerror"

\* VarStore::load
Load ==
    IF ~file.present
    THEN /\ last' = [NoLast EXCEPT !.op = "load", !.res = "ioerror"]
         /\ UNCHANGED <<variables, bufs, cur, file, addLog, saved>>
    ELSE \E order \in Orders(DOMAIN variables) :
        LET named == LoadMulti(file.bundle)
            stop == LoadStop(variables, bufs, named, order)
            visited == {order[i] : i \in 1..(stop - 1)}
        IN /\ bufs' = LoadCopy(variables, bufs, named, visited)
           /\ last' = [NoLast EXCEPT !.op = "load", !.locked = TRUE,
                          !.res = LoadResult(named, order, stop),
                          !.key = IF stop > Len(order) THEN <<>> ELSE order[stop],
                          !.visited = visited]
           /\ UNCHANGED <<variables, cur, file, addLog, saved>>

\* a loop that stops after the first variable it meets
SetGradFirst(vs, bs, order, r) ==
    IF order = <<>> THEN bs
    ELSE IF vs[Head(order)].trainable
         THEN [bs EXCEPT ![vs[Head(order)].tensor].rg = r] ELSE bs

\* a loop that flips the flag of every trainable variable
SetGradToggle(vs, bs, order, r) ==
    [t \in DOMAIN bs |->
        IF \E k \in DOMAIN vs : vs[k].tensor = t /\ vs[k].trainable
        THEN [bs[t] EXCEPT !.rg = ~bs[t].rg] ELSE bs[t]]

\* a loop that sets the flag of every variable, trainable or not
SetGradEvery(vs, bs, order, r) ==
    [t \in DOMAIN bs |->
        IF \E k \in DOMAIN vs : vs[k].tensor = t
        THEN [bs[t] EXCEPT !.rg = r] ELSE bs[t]]

RECURSIVE SetGradAll(_, _, _, _)
\* the loop of freeze / unfreeze over one iteration order
SetGradAll(vs, bs, order, r) ==
    IF order = <<>> THEN bs
    ELSE SetGradAll(vs,
                    IF vs[Head(order)].trainable
                    THEN SetRequiresGrad(bs, vs[Head(order)], r) ELSE bs,
                    Tail(order), r)

\* the tensors of the store that track gradients
Tracking(vs, bs) == {vs[k].tensor : k \in {x \in DOMAIN vs : bs[vs[x].tensor].rg}}

\* VarStore::freeze
Freeze ==
    \E order \in Orders(DOMAIN variables) :
        /\ bufs' = SetGradAll(variables, bufs, order, FALSE)
        /\ last' = [NoLast EXCEPT !.op = "freeze", !.locked = TRUE]
        /\ UNCHANGED <<variables, cur, file, addLog, saved>>

\* VarStore::unfreeze
Unfreeze ==
    \E order \in Orders(DOMAIN variables) :
        /\ bufs' = SetGradAll(variables, bufs, order, TRUE)
        /\ last' = [NoLast EXCEPT !.op = "unfreeze", !.locked = TRUE]
        /\ UNCHANGED <<variables, cur, file, addLog, saved>>

-----------------------------------------------------------------------------
(* Specifications *)

\* the calls of one caller leave the lock free and no call in progress
OneCaller == UNCHANGED <<lock, threads>>

\* the history of freeze / unfreeze calls: what tracked gradients before a
\* freeze, kept over the unfreeze that follows it, and whether the last of
\* them was a freeze
AfterFreeze ==
    hist' = [prev |-> IF last.op = "freeze" THEN "freeze" ELSE "none",
             before |-> Tracking(variables, bufs), frozen |-> TRUE]

AfterUnfreeze ==
    hist' = [prev |-> IF last.op \in {"freeze", "unfreeze"} THEN last.op ELSE "none",
             before |-> IF last.op = "freeze" THEN hist.before ELSE {},
             frozen |-> FALSE]

AfterOther == hist' = [NoHist EXCEPT !.frozen = hist.frozen]

\* store life cycle at the root path: creation, enumeration, freezing,
\* saving and loading
Next ==
    \/ NewStore /\ AfterOther /\ OneCaller
    \/ \E nm \in Names :
          Len(bufs) < MaxAdds /\ ZerosNoTrain(nm, DimsOther) /\ AfterOther /\ OneCaller
    \/ \E nm \in Names :
          Len(bufs) < MaxAdds /\ OnesNoTrain(nm, DimsOther) /\ AfterOther /\ OneCaller
    \/ \E nm \in Names, d \in Shapes, i \in InitVals :
          Len(bufs) < MaxAdds /\ Var(nm, d, i) /\ AfterOther /\ OneCaller
    \/ TrainableVariables /\ AfterOther /\ OneCaller
    \/ \E ok \in BOOLEAN : Save(ok) /\ AfterOther /\ OneCaller
    \/ Load /\ AfterOther /\ OneCaller
    \/ Freeze /\ AfterOther /\ OneCaller
    \/ Unfreeze /\ AfterOther /\ OneCaller

Spec == Init /\ [][Next]_vars

\* naming collisions at the root path, with enumeration and freezing
NextNaming ==
    \/ \E nm \in NamingNames :
          /\ HasSep(nm) \/ Len(bufs) < MaxNamingAdds
          /\ ZerosNoTrain(nm, DimsOther) /\ AfterOther /\ OneCaller
    \/ \E nm \in NamingNames :
          /\ HasSep(nm) \/ Len(bufs) < MaxNamingAdds
          /\ Var(nm, DimsOther, 0) /\ AfterOther /\ OneCaller
    \/ TrainableVariables /\ AfterOther /\ OneCaller
    \/ Freeze /\ AfterFreeze /\ OneCaller
    \/ Unfreeze /\ AfterUnfreeze /\ OneCaller

SpecNaming == Init /\ [][NextNaming]_vars

\* paths: root, sub and creation under the path the caller holds
NextPath ==
    \/ Root /\ AfterOther /\ OneCaller
    \/ \E s \in Segs :
          (HasSep(s) \/ Len(cur) < MaxDepth) /\ Sub(s) /\ AfterOther /\ OneCaller
    \/ \E nm \in PathNames :
          /\ HasSep(nm) \/ Len(bufs) < MaxPathAdds
          /\ ZerosNoTrain(nm, DimsOther) /\ AfterOther /\ OneCaller
    \/ \E nm \in PathNames :
          /\ HasSep(nm) \/ Len(bufs) < MaxPathAdds
          /\ Var(nm, DimsOther, 0) /\ AfterOther /\ OneCaller

SpecPath == Init /\ [][NextPath]_vars

-----------------------------------------------------------------------------
(* Handles: what the caller holds after a creation call *)

\* creation calls in the life of a store whose handles are followed
MaxHandleAdds == 3

\* names that meet the collision policy's made-up names
HandleNames == {Str_w, Str_w2}

\* the value a caller writes through a handle
WriteVals == {1}

\* creation, var_copy and writes through the returned handles, with
\* enumeration, saving and loading
NextHandles ==
    \/ \E nm \in HandleNames :
          Len(bufs) < MaxHandleAdds /\ ZerosNoTrain(nm, DimsOther) /\ AfterOther /\ OneCaller
    \/ \E nm \in HandleNames, src \in DOMAIN bufs :
          Len(bufs) < MaxHandleAdds /\ VarCopy(nm, src) /\ AfterOther /\ OneCaller
    \/ \E t \in DOMAIN bufs, v \in WriteVals : HandleWrite(t, v) /\ AfterOther /\ OneCaller
    \/ TrainableVariables /\ AfterOther /\ OneCaller
    \/ Save(TRUE) /\ AfterOther /\ OneCaller
    \/ Load /\ AfterOther /\ OneCaller

SpecHandles == Init /\ [][NextHandles]_vars

-----------------------------------------------------------------------------
(* Fully-qualified names over paths and leaf names that may be empty *)

\* creation calls whose names are compared
MaxNameAdds == 3

\* depth of the paths the names are requested under
MaxNameDepth == 1

Str_e == <<>>
Str_e1 == <<"_", "_", "1">>

\* leaf names: the empty name and the name the collision policy makes up
\* for its second request
LeafNames == {Str_e, Str_e1}

\* segments: the empty segment and a plain one
NameSegs == {Str_e, Str_a}

NextNames ==
    \/ Root /\ AfterOther /\ OneCaller
    \/ \E sg \in NameSegs : Len(cur) < MaxNameDepth /\ Sub(sg) /\ AfterOther /\ OneCaller
    \/ \E nm \in LeafNames :
          Len(bufs) < MaxNameAdds /\ ZerosNoTrain(nm, DimsOther) /\ AfterOther /\ OneCaller

SpecNames == Init /\ [][NextNames]_vars

-----------------------------------------------------------------------------
(* Several threads on one store: every call as the steps it takes around
   self.variables.lock() *)

\* the variable-creation wrappers of Path
CreateOps == {"zeros_no_train", "ones_no_train", "var"}

\* calls per thread
MaxCalls == 1

\* the names the threads create variables under
ConcNames == {Str_w, Str_aw}

\* the operations that take &mut self: the borrow keeps every other call out
Exclusive == {"load", "freeze", "unfreeze"}

\* the steps a thread takes between lock() returning and the guard's drop
Critical == {"check", "insert", "body", "unlock"}

\* a Mutex that lets every caller in
LockableAlways(l) == TRUE

\* Mutex::lock returns once no thread holds the lock
Lockable(l) == l = 0

\* a guard that is dropped only when the call succeeds
ReleasedOnOk(l, ok) == IF ok THEN 0 ELSE l

\* the MutexGuard is dropped on every way out of the function
Released(l, ok) == 0

\* thread t may start a call taking &self
MayCall(t) ==
    /\ threads[t].pc = "idle"
    /\ threads[t].calls < MaxCalls
    /\ \A u \in Threads \ {t} : threads[u].pc = "idle" \/ threads[u].op \notin Exclusive

\* thread t may start a call taking &mut self
MayCallMut(t) ==
    /\ threads[t].pc = "idle"
    /\ threads[t].calls < MaxCalls
    /\ \A u \in Threads \ {t} : threads[u].pc = "idle"

\* thread t has returned from its call
Return(t) == [threads[t] EXCEPT !.pc = "idle", !.calls = @ + 1]

\* a variable-creation call up to self.var_store.variables.lock(): the name
\* check and join of Path::path, and the tensor the wrapper creates
CallAdd(t, op, name, dims, val, trainable, src) ==
    /\ MayCall(t)
    /\ IF HasSep(name)
       THEN /\ threads' = [threads EXCEPT ![t] = [Return(t) EXCEPT !.op = op, !.ok = FALSE]]
            /\ UNCHANGED bufs
       ELSE /\ bufs' = Append(bufs, [shape |-> dims, val |-> val, rg |-> FALSE])
            /\ threads' = [threads EXCEPT ![t] =
                   [pc |-> "lock", op |-> op, name |-> name, path |-> PathName(cur, name),
                    key |-> <<>>,
                    tensor |-> Len(bufs) + 1, trainable |-> trainable, src |-> src,
                    ok |-> TRUE, calls |-> threads[t].calls]]
    /\ UNCHANGED <<variables, cur, file, addLog, saved, last, hist, lock>>

CallZerosNoTrain(t, name, dims) == CallAdd(t, "zeros_no_train", name, dims, 0, FALSE, 0)

CallVar(t, name, dims, init) == CallAdd(t, "var", name, dims, init, TRUE, 0)

\* var_copy up to the lock: self.zeros(name, &t.size())
CallVarCopy(t, name, src) == CallAdd(t, "var_copy", name, bufs[src].shape, 0, TRUE, src)

\* trainable_variables, save, freeze and unfreeze up to the lock
CallLocked(t, op, ok) ==
    /\ IF op \in Exclusive THEN MayCallMut(t) ELSE MayCall(t)
    /\ threads' = [threads EXCEPT ![t] = [Idle EXCEPT !.pc = "lock", !.op = op, !.ok = ok,
                                              !.calls = threads[t].calls]]
    /\ UNCHANGED <<variables, bufs, cur, file, addLog, saved, last, hist, lock>>

\* load up to the lock: Tensor::load_multi(&path)? returns its error at once
CallLoad(t) ==
    /\ MayCallMut(t)
    /\ IF file.present
       THEN /\ threads' = [threads EXCEPT ![t] = [Idle EXCEPT !.pc = "lock", !.op = "load",
                                                     !.calls = threads[t].calls]]
            /\ UNCHANGED last
       ELSE /\ Load
            /\ threads' = [threads EXCEPT ![t] = [Return(t) EXCEPT !.op = "load",
                                                                   !.ok = FALSE]]
    /\ UNCHANGED <<variables, bufs, cur, file, addLog, saved, hist, lock>>

\* self.variables.lock().unwrap() returns
Acquire(t) ==
    /\ threads[t].pc = "lock"
    /\ Lockable(lock)
    /\ lock' = t
    /\ threads' = [threads EXCEPT ![t].pc = IF threads[t].op \in CreateOps \cup {"var_copy"}
                                            THEN "check" ELSE "body"]
    /\ UNCHANGED <<variables, bufs, cur, file, addLog, saved, last, hist>>

\* Path::add: variables.contains_key(&path) and variables.len()
CheckKey(t) ==
    /\ threads[t].pc = "check"
    /\ threads' = [threads EXCEPT ![t].pc = "insert",
                                  ![t].key = AddKey(threads[t].path, variables)]
    /\ UNCHANGED <<variables, bufs, cur, file, addLog, saved, last, hist, lock>>

\* Path::add: set_requires_grad(true) if trainable, then variables.insert
InsertVar(t) ==
    LET c == threads[t]
    IN /\ c.pc = "insert"
       /\ bufs' = [bufs EXCEPT ![c.tensor].rg = c.trainable]
       /\ variables' = Insert(variables, c.key, [tensor |-> c.tensor, trainable |-> c.trainable])
       /\ addLog' = Append(addLog,
              [key |-> c.key, path |-> c.path, collided |-> (c.key # c.path),
               n |-> Cardinality(DOMAIN variables), trainable |-> c.trainable,
               tensor |-> c.tensor, segs |-> cur, name |-> c.name])
       /\ threads' = [threads EXCEPT ![t].pc = "unlock"]
       /\ UNCHANGED <<cur, file, saved, last, hist, lock>>

\* the body of trainable_variables, save, load, freeze or unfreeze between
\* lock() and the return
Body(t) ==
    /\ threads[t].pc = "body"
    /\ \/ threads[t].op = "trainable_variables" /\ TrainableVariables
       \/ threads[t].op = "save" /\ Save(threads[t].ok)
       \/ threads[t].op = "load" /\ Load
       \/ threads[t].op = "freeze" /\ Freeze
       \/ threads[t].op = "unfreeze" /\ Unfreeze
    /\ threads' = [threads EXCEPT ![t].pc = "unlock", ![t].ok = (last'.res = "ok")]
    /\ UNCHANGED <<hist, lock>>

\* the guard goes out of scope and the call returns; var_copy goes on to
\* its copy
Unlock(t) ==
    /\ threads[t].pc = "unlock"
    /\ lock' = Released(lock, threads[t].ok)
    /\ threads' = [threads EXCEPT ![t] = IF threads[t].op = "var_copy"
                                         THEN [threads[t] EXCEPT !.pc = "copy"]
                                         ELSE Return(t)]
    /\ UNCHANGED <<variables, bufs, cur, file, addLog, saved, last, hist>>

\* var_copy: crate::no_grad(|| v.copy_(&t)), after add has returned
CopyStep(t) ==
    /\ threads[t].pc = "copy"
    /\ bufs' = [bufs EXCEPT ![threads[t].tensor] = CopyInto(@, bufs[threads[t].src])]
    /\ threads' = [threads EXCEPT ![t] = Return(t)]
    /\ UNCHANGED <<variables, cur, file, addLog, saved, last, hist, lock>>

\* the steps of thread t once its call is under way
Step(t) ==
    \/ Acquire(t)
    \/ CheckKey(t)
    \/ InsertVar(t)
    \/ Body(t)
    \/ Unlock(t)
    \/ CopyStep(t)

NextConc ==
    \/ \E t \in Threads, nm \in ConcNames : CallZerosNoTrain(t, nm, DimsOther)
    \/ \E t \in Threads : CallVar(t, Str_w, DimsOther, 1)
    \/ \E t \in Threads, src \in DOMAIN bufs : CallVarCopy(t, Str_w, src)
    \/ \E t \in Threads : CallLocked(t, "trainable_variables", TRUE)
    \/ \E t \in Threads, ok \in BOOLEAN : CallLocked(t, "save", ok)
    \/ \E t \in Threads : CallLocked(t, "freeze", TRUE)
    \/ \E t \in Threads : CallLocked(t, "unfreeze", TRUE)
    \/ \E t \in Threads : CallLoad(t)
    \/ \E t \in Threads : Acquire(t)
    \/ \E t \in Threads : CheckKey(t)
    \/ \E t \in Threads : InsertVar(t)
    \/ \E t \in Threads : Body(t)
    \/ \E t \in Threads : Unlock(t)
    \/ \E t \in Threads : CopyStep(t)

SpecConc == Init /\ [][NextConc]_vars

\* fair scheduling: a thread that can take a step of its call takes it, and
\* a thread waiting at a lock that keeps becoming free gets it
SpecConcFair ==
    /\ Init
    /\ [][NextConc]_vars
    /\ \A t \in Threads : WF_vars(CheckKey(t) \/ InsertVar(t) \/ Body(t) \/ Unlock(t) \/ CopyStep(t))
    /\ \A t \in Threads : SF_vars(Acquire(t))

-----------------------------------------------------------------------------
(* Properties: naming, collisions and aborts *)

\* the last call was a variable creation that reached the insert
Created == last.op \in CreateOps /\ last.res = "ok"

\* the contents of the tensor stored under key k
StoredContents(k) == Contents(bufs[variables[k].tensor])

\* C1: every add call increases the number of entries by one and never
\* replaces an entry: the map holds one entry per completed add call, each
\* still under the key and with the tensor it was inserted with.
C1_NoEntryReplaced ==
    /\ Cardinality(DOMAIN variables) = Len(addLog)
    /\ \A i \in DOMAIN addLog :
          /\ addLog[i].key \in DOMAIN variables
          /\ variables[addLog[i].key].tensor = addLog[i].tensor

\* C2: trainable_variables returns exactly one tensor for every add call
\* made with trainable = true and none for an add call made with
\* trainable = false, whatever freeze / unfreeze calls were made.
C2_TrainableVariablesExact ==
    last.op = "trainable_variables" =>
        LET want == {i \in DOMAIN addLog : addLog[i].trainable}
        IN /\ Len(last.ret) = Cardinality(want)
           /\ {last.ret[j] : j \in DOMAIN last.ret} = {addLog[i].tensor : i \in want}

\* C3: a creation call whose fully-qualified name is taken while the map
\* holds n entries stores the new variable under <name>__<n>, a key other
\* than the taken one, and leaves the earlier entry as it was; the snapshot
\* save takes then holds the earlier and the new tensor under their two names.
C3_CollisionKeepsBoth ==
    [][/\ (Created /\ last.collided)' =>
             LET fq == PathName(cur, last'.name)
                 n == Cardinality(DOMAIN variables)
             IN /\ fq \in DOMAIN variables
                /\ last'.key = fq \o <<"_", "_">> \o ToDec(n)
                /\ last'.key # fq
                /\ variables'[fq] = variables[fq]
                /\ variables'[last'.key].tensor = last'.ret[1]
                /\ variables'[last'.key].tensor # variables'[fq].tensor
       /\ (last.op = "save")' =>
             \A i \in DOMAIN addLog' :
                 addLog'[i].collided =>
                     /\ <<addLog'[i].key, addLog'[i].tensor>> \in last'.snap
                     /\ \E j \in 1..(i - 1) :
                           /\ addLog'[j].key = addLog'[i].path
                           /\ <<addLog'[j].key, addLog'[j].tensor>> \in last'.snap
      ]_vars

\* a save has snapshotted a store in which a creation call collided
C3_Witness ==
    /\ last.op = "save"
    /\ last.res = "ok"
    /\ \E i \in DOMAIN addLog :
          /\ addLog[i].collided
          /\ addLog[i].key = Str_w \o <<"_", "_", "1">>
          /\ <<addLog[i].key, addLog[i].tensor>> \in last.snap
          /\ <<Str_w, addLog[1].tensor>> \in last.snap

RECURSIVE SplitSep(_)
\* the pieces of s between its separators
SplitSep(s) ==
    IF \A i \in 1..Len(s) : s[i] # SEP THEN <<s>>
    ELSE LET i == CHOOSE i \in 1..Len(s) : s[i] = SEP /\ \A j \in 1..(i - 1) : s[j] # SEP
         IN <<SubSeq(s, 1, i - 1)>> \o SplitSep(SubSeq(s, i + 1, Len(s)))

\* C4: without a collision, a variable created on the path s1..sk is stored
\* under s1|s2|...|sk|name: the key splits at its separators into the
\* segments followed by the leaf name, it is the bare leaf name at the root,
\* and root().sub("a").sub("b") creating "w" gives "a|b|w".
C4_KeyIsJoinedPath ==
    (Created /\ ~last.collided) =>
        /\ SplitSep(last.key) = Append(cur, last.name)
        /\ cur = <<>> => last.key = last.name
        /\ (cur = <<Str_a, Str_b>> /\ last.name = Str_w) =>
               last.key = <<"a", "|", "b", "|", "w">>
        /\ last.key \in DOMAIN variables
        /\ variables[last.key].tensor = last.ret[1]

\* "w" has been created on root().sub("a").sub("b")
C4_Witness ==
    /\ Created
    /\ ~last.collided
    /\ cur = <<Str_a, Str_b>>
    /\ last.key = <<"a", "|", "b", "|", "w">>

\* C5: a creation call or a sub call whose name contains the separator
\* aborts before the lock is taken and changes nothing: the keys, the stored
\* tensors and the trainable flags are the same before and after.
C5_SeparatorAborts ==
    [][(/\ last.op \in CreateOps \cup {"sub"}
        /\ \E i \in 1..Len(last.name) : last.name[i] = "|")' =>
           /\ last'.res = "panic"
           /\ ~last'.locked
           /\ variables' = variables
           /\ bufs' = bufs
           /\ cur' = cur
           /\ addLog' = addLog
      ]_vars

\* a creation call with a separator in its name has aborted on a store that
\* holds a variable
C5_Witness ==
    /\ last.op \in CreateOps
    /\ last.res = "panic"
    /\ last.name = Str_aw
    /\ ~last.locked
    /\ DOMAIN variables # {}

\* a sub call with a separator in its name has aborted on a derived path
C5_WitnessSub ==
    /\ last.op = "sub"
    /\ last.res = "panic"
    /\ cur # <<>>

-----------------------------------------------------------------------------
(* Properties: load, save and freeze *)

\* the names the bundle at the destination holds
BundleNames == {p[1] : p \in file.bundle}

\* what the bundle at the destination holds under name k
BundleOf(k) == (CHOOSE p \in file.bundle : p[1] = k)[2]

\* a load has read a bundle
Loaded == last.op = "load" /\ file.present

\* every variable of the store can be copied from the bundle
AllCopyable ==
    \A k \in DOMAIN variables :
        k \in BundleNames /\ StoredContents(k).shape = BundleOf(k).shape

\* C6 as stated: load succeeds only if every name of the store is in the
\* bundle; with a name missing it returns the not-found error for the first
\* missing variable in iteration order; names only the bundle holds neither
\* fail the load nor create entries.
C6_MissingNameIsNotFound ==
    Loaded =>
        /\ last.res = "ok" => DOMAIN variables \subseteq BundleNames
        /\ ~(DOMAIN variables \subseteq BundleNames) =>
              /\ last.res = "notfound"
              /\ last.key \in DOMAIN variables \ BundleNames
              /\ last.visited \subseteq BundleNames
        /\ AllCopyable => last.res = "ok"
        /\ DOMAIN variables = {addLog[i].key : i \in DOMAIN addLog}

\* C6 amended: with a name missing, load never succeeds; it returns the
\* not-found error for the first missing variable in iteration order unless
\* the copy into a variable met before it failed, and then it returns that
\* copy error.
C6_MissingNameFailsLoad ==
    Loaded =>
        /\ last.res = "ok" => DOMAIN variables \subseteq BundleNames
        /\ ~(DOMAIN variables \subseteq BundleNames) =>
              /\ last.res \in {"notfound", "copyerror"}
              /\ last.visited \subseteq BundleNames
              /\ last.key \in DOMAIN variables \ last.visited
              /\ last.res = "notfound" => last.key \notin BundleNames
              /\ last.res = "copyerror" =>
                    /\ last.key \in BundleNames
                    /\ StoredContents(last.key).shape # BundleOf(last.key).shape
        /\ AllCopyable => last.res = "ok"
        /\ DOMAIN variables = {addLog[i].key : i \in DOMAIN addLog}

\* a load has met a missing name after visiting a variable the bundle holds
C6_Witness ==
    /\ Loaded
    /\ last.res = "notfound"
    /\ last.visited # {}
    /\ last.key \notin BundleNames

\* a load has succeeded on a bundle holding a name the store does not hold
C6_WitnessExtra ==
    /\ Loaded
    /\ last.res = "ok"
    /\ DOMAIN variables # {}
    /\ BundleNames \ DOMAIN variables # {}

\* C7: when load fails on a missing name, the variables visited before it
\* hold the values of the bundle and the others keep their values.
C7_FailedLoadKeepsCopies ==
    [][(Loaded /\ last.res = "notfound")' =>
          \A k \in DOMAIN variables :
              /\ k \in last'.visited =>
                    bufs'[variables[k].tensor].val = BundleOf(k).val
              /\ k \notin last'.visited =>
                    bufs'[variables[k].tensor].val = bufs[variables[k].tensor].val
      ]_vars

\* a failed load has left a loaded value beside an old one: var fills with
\* 0, so the 1 in the visited trainable variable came from the bundle, and
\* the variable whose name is missing still holds what it was created with
C7_Witness ==
    /\ Loaded
    /\ last.res = "notfound"
    /\ \E k \in last.visited :
          /\ variables[k].trainable
          /\ StoredContents(k).val = 1
          /\ BundleOf(k).val = 1
    /\ StoredContents(last.key).val = 0
    /\ ~variables[last.key].trainable

\* C8: load, whether it succeeds or fails, leaves the key set, the tensor
\* each key refers to, the trainable flags, the gradient tracking and the
\* shapes as they were.
C8_LoadChangesValuesOnly ==
    [][(last.op = "load")' =>
          /\ variables' = variables
          /\ DOMAIN bufs' = DOMAIN bufs
          /\ \A t \in DOMAIN bufs :
                /\ bufs'[t].rg = bufs[t].rg
                /\ bufs'[t].shape = bufs[t].shape
      ]_vars

\* a load has written a value into a variable that tracks gradients
C8_Witness ==
    /\ Loaded
    /\ \E k \in last.visited :
          /\ variables[k].trainable
          /\ bufs[variables[k].tensor].rg
          /\ StoredContents(k).val = 1

\* C9: a load from the destination into a store holding the names and the
\* shapes of the saved store succeeds and gives every variable the value its
\* namesake had when it was saved.
C9_RoundTrip ==
    (/\ Loaded
     /\ DOMAIN variables = DOMAIN saved.from
     /\ \A k \in DOMAIN variables : StoredContents(k).shape = saved.from[k].shape) =>
        /\ last.res = "ok"
        /\ \A k \in DOMAIN variables : StoredContents(k).val = saved.from[k].val

\* a load has brought two saved values into a store constructed after the
\* save with the same names and shapes; var fills with 0, so the 1 in the
\* trainable variable is the saved value
C9_Witness ==
    /\ Loaded
    /\ last.res = "ok"
    /\ saved.fresh
    /\ DOMAIN variables = DOMAIN saved.from
    /\ Cardinality(DOMAIN variables) = 2
    /\ \E k \in DOMAIN variables :
          /\ variables[k].trainable
          /\ saved.from[k].val = 1
          /\ StoredContents(k).val = 1

\* C10: freeze turns gradient tracking off on every trainable variable and
\* leaves the trainable flags, the gradient tracking of the other variables,
\* the key set and the values as they were.
C10_FreezeFrame ==
    [][(last.op = "freeze")' =>
          /\ variables' = variables
          /\ DOMAIN bufs' = DOMAIN bufs
          /\ \A k \in DOMAIN variables :
                LET t == variables[k].tensor
                IN /\ variables[k].trainable => ~bufs'[t].rg
                   /\ ~variables[k].trainable => bufs'[t].rg = bufs[t].rg
                   /\ Contents(bufs'[t]) = Contents(bufs[t])
      ]_vars

\* freeze has run on a store holding two trainable variables and one that
\* is not, or on one holding a trainable and a non-trainable variable
C10_Witness ==
    /\ last.op = "freeze"
    /\ \E k \in DOMAIN variables : variables[k].trainable /\ ~bufs[variables[k].tensor].rg
    /\ \E k \in DOMAIN variables : ~variables[k].trainable

-----------------------------------------------------------------------------
(* Properties: unfreeze, idempotence, the trainable flag, save *)

\* the tensors of the trainable variables of the store
TrainableTensors == {variables[k].tensor : k \in {x \in DOMAIN variables : variables[x].trainable}}

\* unfreeze has run right after freeze
UnfrozeAfterFreeze == last.op = "unfreeze" /\ hist.prev = "freeze"

\* C11 as stated: freeze then unfreeze restores the gradient tracking that
\* held before the freeze, with tracking on for every trainable variable and
\* for no other.
C11_UnfreezeRestores ==
    UnfrozeAfterFreeze =>
        /\ Tracking(variables, bufs) = hist.before
        /\ Tracking(variables, bufs) = TrainableTensors

\* C11 amended: unfreeze turns tracking on for every trainable variable and
\* for no other; freeze then unfreeze restores the tracking that held before
\* the freeze exactly when it was on for every trainable variable then.
C11_UnfreezeEnablesTrainable ==
    /\ last.op = "unfreeze" => Tracking(variables, bufs) = TrainableTensors
    /\ UnfrozeAfterFreeze =>
          (Tracking(variables, bufs) = hist.before <=> hist.before = TrainableTensors)

\* freeze then unfreeze has brought back the tracking of a store holding a
\* trainable and a non-trainable variable
C11_Witness ==
    /\ UnfrozeAfterFreeze
    /\ hist.before = TrainableTensors
    /\ TrainableTensors # {}
    /\ \E k \in DOMAIN variables : ~variables[k].trainable

\* C12: a freeze right after a freeze, and an unfreeze right after an
\* unfreeze, change neither the gradient tracking nor the map.
C12_Idempotent ==
    [][/\ (last.op = "freeze" /\ last'.op = "freeze") =>
             (bufs' = bufs /\ variables' = variables)
       /\ (last.op = "unfreeze" /\ last'.op = "unfreeze") =>
             (bufs' = bufs /\ variables' = variables)
      ]_vars

\* the store was frozen twice in a row while holding a trainable variable
\* and another variable
C12_Witness ==
    /\ last.op = "freeze"
    /\ hist.prev = "freeze"
    /\ hist.before = {}
    /\ TrainableTensors # {}
    /\ Cardinality(DOMAIN variables) >= 2

\* C13: the trainable flag under a key never changes: every call leaves
\* every key of the store in place with the flag it had.
C13_TrainableImmutable ==
    [][last'.op # "new" =>
          \A k \in DOMAIN variables :
              /\ k \in DOMAIN variables'
              /\ variables'[k].trainable = variables[k].trainable
      ]_vars

\* C16: save snapshots the (name, tensor) pair of every variable and no
\* other, leaves keys, values, flags and gradient tracking as they were
\* whether the write succeeds or fails, and reports a failed write as an
\* error.
C16_SaveFrame ==
    [][(last.op = "save")' =>
          /\ last'.snap = {<<k, variables[k].tensor>> : k \in DOMAIN variables}
          /\ variables' = variables
          /\ bufs' = bufs
          /\ last'.res \in {"ok", "ioerror"}
          /\ last'.res = "ok" =>
                /\ file'.present
                /\ file'.bundle = {<<k, StoredContents(k)>> : k \in DOMAIN variables}
          /\ last'.res = "ioerror" => file' \in {file, NoFile}
      ]_vars

\* a save has failed on a store holding two variables, one trainable and
\* tracking gradients, while an older bundle stays at the destination
C16_Witness ==
    /\ last.op = "save"
    /\ last.res = "ioerror"
    /\ Cardinality(last.snap) = 2
    /\ file.present
    /\ \E k \in DOMAIN variables : variables[k].trainable /\ bufs[variables[k].tensor].rg
    /\ \E k \in DOMAIN variables : ~variables[k].trainable

\* the store was unfrozen twice in a row while holding a trainable variable
C12_WitnessUnfreeze ==
    /\ last.op = "unfreeze"
    /\ hist.prev = "unfreeze"
    /\ TrainableTensors # {}

-----------------------------------------------------------------------------
(* Properties: threads sharing one store *)

\* thread t is between lock() returning and the drop of its guard
InCritical(t) == threads[t].pc \in Critical

RECURSIVE SequentialMap(_, _)
\* the map left by the first n logged add calls made one after the other,
\* each as a whole, in the order of the log
SequentialMap(log, n) ==
    IF n = 0 THEN EmptyMap
    ELSE LET m == SequentialMap(log, n - 1)
         IN Insert(m, AddKey(log[n].path, m),
                   [tensor |-> log[n].tensor, trainable |-> log[n].trainable])

\* C14: with several threads creating variables, enumerating and saving, at
\* most one thread is inside a critical section of the map, and it holds the
\* lock; the map is the one the same add calls leave when made one after
\* the other in the order they took the lock, and holds every inserted
\* variable.
C14_SequentialMap ==
    /\ \A t \in Threads, u \in Threads : InCritical(t) /\ InCritical(u) => t = u
    /\ \A t \in Threads : InCritical(t) => lock = t
    /\ variables = SequentialMap(addLog, Len(addLog))
    /\ \A i \in DOMAIN addLog : \E k \in DOMAIN variables : variables[k].tensor = addLog[i].tensor

\* two threads have created a variable under the same name at the same
\* time: the second waited at the lock while the first was between its
\* collision check and its insert, and both variables are in the map
C14_Witness ==
    /\ Len(addLog) = 2
    /\ addLog[1].path = addLog[2].path
    /\ addLog[2].collided
    /\ Cardinality(DOMAIN variables) = 2
    /\ \A t \in Threads : threads[t].op \in CreateOps /\ threads[t].pc \in {"unlock", "idle"}
    /\ \E t \in Threads : threads[t].pc = "unlock"

\* a thread waits at the lock while another is inside its critical section
C14_WitnessWaiting ==
    \E t \in Threads, u \in Threads :
        /\ threads[t].pc = "lock"
        /\ threads[u].pc = "insert"
        /\ threads[t].path = threads[u].path

\* C15: no call asks for the lock while holding it, the lock is held only
\* inside a critical section (so it is free again whenever its holder has
\* returned, with a result or an error, or has gone on to var_copy's copy),
\* and under fair scheduling every call that was made returns.
C15_EveryCallReturns ==
    /\ [](\A t \in Threads : threads[t].pc \in {"idle", "lock", "copy"} => lock # t)
    /\ [](lock # 0 => InCritical(lock))
    /\ \A t \in Threads : (threads[t].pc # "idle") ~> (threads[t].pc = "idle")

\* a save that failed has returned and left the lock free for the thread
\* that waits at it
C15_Witness ==
    /\ lock = 0
    /\ \E t \in Threads : threads[t].op = "save" /\ ~threads[t].ok /\ threads[t].calls = 1
    /\ \E t \in Threads : threads[t].pc = "lock"

\* var_copy is past its add and about to copy while the other thread is
\* inside a critical section
C15_WitnessCopy ==
    \E t \in Threads, u \in Threads :
        /\ threads[t].op = "var_copy" /\ threads[t].pc = "copy"
        /\ lock = u /\ InCritical(u)

-----------------------------------------------------------------------------
(* Properties: handles, var_copy, the frozen store, name injectivity *)

\* the handles a call returned
Returned == {last.ret[i] : i \in DOMAIN last.ret}

\* C17: the handle a creation call returned, and the handles
\* trainable_variables returns, are the buffer of the store's entry: after a
\* successful load the handle returned for a key reads the bundle's values
\* for that key, a save snapshots under the key what was written through
\* its handle, and trainable_variables returns the handle of every
\* trainable creation call.
C17_HandlesShare ==
    /\ (last.op = "load" /\ last.res = "ok") =>
          \A i \in DOMAIN addLog :
              /\ addLog[i].key \in BundleNames
              /\ Contents(bufs[addLog[i].tensor]) = BundleOf(addLog[i].key)
    /\ (last.op = "save" /\ last.res = "ok") =>
          \A i \in DOMAIN addLog :
              <<addLog[i].key, Contents(bufs[addLog[i].tensor])>> \in file.bundle
    /\ last.op = "trainable_variables" =>
          \A i \in DOMAIN addLog : addLog[i].trainable => addLog[i].tensor \in Returned

\* C18: var_copy(name, t) adds one new entry and touches no other; the
\* entry is trainable, tracks gradients, has t's shape and values in a
\* buffer of its own, t is as it was, and the returned handle is the
\* entry's tensor.
C18_VarCopyAddsCopy ==
    [][(last'.op = "var_copy" /\ last'.res = "ok") =>
          LET k == last'.key
              t == last'.ret[1]
              src == last'.src
          IN /\ k \notin DOMAIN variables
             /\ DOMAIN variables' = DOMAIN variables \cup {k}
             /\ \A x \in DOMAIN variables : variables'[x] = variables[x]
             /\ variables'[k] = [tensor |-> t, trainable |-> TRUE]
             /\ t \notin DOMAIN bufs /\ t # src
             /\ bufs'[t].rg
             /\ Contents(bufs'[t]) = Contents(bufs[src])
             /\ bufs'[src] = bufs[src]
      ]_vars

\* C19: from a freeze to the next unfreeze no variable of the store tracks
\* gradients, whatever is created in between.
C19_FrozenNoTracking == hist.frozen => Tracking(variables, bufs) = {}

\* two logged requests were made under the same path with the same name
SameRequest(i, j) == addLog[i].segs = addLog[j].segs /\ addLog[i].name = addLog[j].name

\* requests with equal fully-qualified names are the same request
NamesInjective ==
    \A i \in DOMAIN addLog, j \in DOMAIN addLog :
        addLog[i].path = addLog[j].path => SameRequest(i, j)

\* C20 as stated: the fully-qualified name is injective, so a request finds
\* its name taken only when the same path and leaf name were requested
\* before.
C20_NamesNeverCollide ==
    /\ NamesInjective
    /\ \A i \in DOMAIN addLog :
          addLog[i].collided => \E j \in 1..(i - 1) : SameRequest(i, j)

\* C20 amended: the fully-qualified name is injective; a request finds its
\* name taken only by an earlier request of the same path and leaf name, or
\* by the key the collision policy made up for an earlier request.
C20_PathNameInjective ==
    /\ NamesInjective
    /\ \A i \in DOMAIN addLog :
          addLog[i].collided =>
              \E j \in 1..(i - 1) :
                  /\ addLog[j].key = addLog[i].path
                  /\ SameRequest(i, j) \/ addLog[j].collided

\* under a path with an empty segment, a request met the key made up for an
\* earlier request of another leaf name, the empty one
C20_Witness ==
    \E i \in DOMAIN addLog : \E j \in 1..(i - 1) :
        /\ addLog[i].collided
        /\ addLog[i].segs = <<Str_e>>
        /\ addLog[j].key = addLog[i].path
        /\ addLog[j].name = Str_e
        /\ addLog[i].name # Str_e

\* requests for the empty leaf name under an empty segment and under the
\* root got different names
C20_WitnessDistinct ==
    \E i \in DOMAIN addLog, j \in DOMAIN addLog :
        /\ addLog[i].segs = <<Str_e>> /\ addLog[i].name = Str_e
        /\ addLog[j].segs = <<>> /\ addLog[j].name = Str_e
        /\ addLog[i].path # addLog[j].path

====
